---------------------------- MODULE Spec2Model ----------------------------
(*************************************************************************)
(* Model of the ESP8266 flashing engine, src/flashnchips/esp8266.cc:     *)
(* FlasherImpl (load, setPort, run and the helpers run() calls) speaking *)
(* the ROM monitor protocol to a device whose answers are arbitrary.     *)
(*                                                                       *)
(* An image is kept as its length and its first (up to four) bytes: the  *)
(* code looks at no other byte of an image (run() reads bytes 0, 2, 3    *)
(* and writes bytes 2, 3; writeFlashLocked only slices by position).     *)
(* One behaviour of the model is one life of an engine object:           *)
(* construction, load()/setPort()/totalBlocks() calls from other threads *)
(* (load() in two steps: the lock taken and the map cleared, then the    *)
(* directory read and the lock released), and one run().                 *)
(*                                                                       *)
(* Spec is the engine; LiveSpec is Spec with the thread inside run()     *)
(* scheduled fairly. PureSpec applies the functions of the file that     *)
(* stand by themselves (fixupEraseLength, SLIP_write/SLIP_read,          *)
(* generateIdBlock, flashParamsFromString, sync/trySync/                 *)
(* rebootIntoBootloader, readFlashLocked) to inputs drawn at the start.  *)
(*************************************************************************)
EXTENDS Integers, Sequences, FiniteSets, TLC

\* ----------------------------------------------------------------------
\* Program constants
\* ----------------------------------------------------------------------
writeBlockSize == 1024
flashBlockSize == 4096
idBlockOffset == 65536
idBlockSize == flashBlockSize
sectorSize == 4096
sectorsPerBlock == 16
BootMagic == 233
ModeDIO == 2
SyncResponses == 8
RebootSyncAttempts == 3
ReadSyncAttempts == 5
\* mutant of FirstAttemptsLeft: one attempt more
FirstAttemptsLeftMore == 2 + 1

FirstAttemptsLeft == 2
SHA1Length == 20

\* ----------------------------------------------------------------------
\* int arithmetic of the build (two's complement; every value the code
\* computes here lies within 17 bits, so no operation wraps)
\* ----------------------------------------------------------------------
\* x | y on int: the bitwise or of the two's complement representations
RECURSIVE Or32(_, _)
Or32(x, y) ==
  IF x = 0 THEN y
  ELSE IF y = 0 THEN x
  ELSE IF x = -1 \/ y = -1 THEN -1
  ELSE (IF (x % 2 = 1) \/ (y % 2 = 1) THEN 1 ELSE 0)
       + 2 * Or32(x \div 2, y \div 2)

\* x << 8 on int
Shl8(x) == x * 256

\* mutant of HighByte: the shift is left out
HighByteUnshifted(x) == x % 256

\* (x >> 8) & 0xff and x & 0xff on int (>> is an arithmetic shift)
HighByte(x) == (x \div 256) % 256

LowByte(x) == x % 256

\* ----------------------------------------------------------------------
\* Sample inputs
\* ----------------------------------------------------------------------
NoPort == "none"
Ports == {"ttyUSB0"}

\* constructor arguments: override_flash_params (-1 = none; 0x0240 is
\* "dio,32m,40m", 0x0280 a DIO value with a low byte >= 0x80)
OverrideSamples == {-1, 576, 640}

\* bytes 2 and 3 of the flash header the device holds
DeviceParamSamples == {<<3, 2>>, <<2, 64>>, <<2, 128>>, <<128, 0>>}

\* first byte of the flash header the device holds
DeviceMagicSamples == {BootMagic, 0}

\* what the device answers to one sync(): how many of the 8 responses read
\* parse as valid before the first that does not
SyncValidSamples == {7, 8}

\* first four bytes of a generated IdBlock (they are bytes of a SHA-1 hash)
IdHashSample == <<18, 52, 86, 120>>

\* Bound of the model: the length in blocks of the longest supplied image
MaxBlocks == 2

\* a length of MaxBlocks whole blocks, and one that ends inside the last
BigLen == MaxBlocks * writeBlockSize

OddLen == BigLen - 548

File(addrOk, addr, openOk, sizeOk, len, hdr) ==
  [addrOk |-> addrOk, addr |-> addr, openOk |-> openOk, sizeOk |-> sizeOk,
   len |-> len, hdr |-> hdr]

Good(addr, len, hdr) == File(TRUE, addr, TRUE, TRUE, len, hdr)

Dir(exists, files) == [exists |-> exists, files |-> files]

\* directories handed to load(): the files matching 0x*.bin, by name
DirSamples ==
  { Dir(FALSE, <<>>),
    Dir(TRUE, <<>>),
    Dir(TRUE, << Good(0, OddLen, <<233, 0, 170, 187>>) >>),
    Dir(TRUE, << Good(0, 1024, <<233, 0, 2, 128>>) >>),
    Dir(TRUE, << Good(0, 1024, <<233, 0, 2, 64>>),
                 Good(65536, BigLen, <<1, 2, 3, 4>>) >>),
    Dir(TRUE, << Good(0, OddLen, <<0, 0, 170, 187>>) >>),
    Dir(TRUE, << Good(0, 2, <<233, 0>>),
                 Good(4096, OddLen, <<233, 0, 170, 187>>) >>),
    Dir(TRUE, << Good(4096, BigLen, <<1, 2, 3, 4>>), Good(65536, 0, <<>>) >>),
    Dir(TRUE, << Good(0, 1024, <<233, 0, 2, 64>>),
                 File(FALSE, 0, TRUE, TRUE, 0, <<>>) >>),
    Dir(TRUE, << Good(0, 1024, <<233, 0, 2, 64>>),
                 File(TRUE, 4096, FALSE, TRUE, 0, <<>>) >>),
    Dir(TRUE, << Good(0, 1024, <<233, 0, 2, 64>>),
                 File(TRUE, 4096, TRUE, FALSE, 8, <<>>) >>) }

\* raw answers of the device to one command
Raw(short, direction, command, status, lastError) ==
  [short |-> short, direction |-> direction, command |-> command,
   status |-> status, lastError |-> lastError]

RawSamples(cmd) ==
  { Raw(FALSE, 1, cmd, 0, 0),      \* well-formed, success
    Raw(FALSE, 1, 255, 0, 0),      \* echoes another command
    Raw(TRUE, 1, cmd, 0, 0),       \* fewer than 10 bytes (or a timeout)
    Raw(FALSE, 0, cmd, 0, 0),      \* wrong direction byte
    Raw(FALSE, 1, cmd, 1, 0),      \* status != 0
    Raw(FALSE, 1, cmd, 0, 7) }     \* last_error != 0

\* ----------------------------------------------------------------------
\* State
\* ----------------------------------------------------------------------
VARIABLES
  char_signed,                 \* whether plain char is signed in this build
  preserve_flash_params_,
  erase_bug_workaround_,
  override_flash_params_,
  generate_id_if_none_found_,
  lock_,                       \* TRUE while the mutex is held
  port_,
  images_,                     \* address -> [len, hdr]
  written_count_,
  loadResult,                  \* message returned by the last load()
  loading,                     \* TRUE while a load() is between its first and last line
  pc,                          \* position of run()
  flashParams,                 \* run(): int flashParams
  params,                      \* run(): QByteArray params
  addr,                        \* run(): key of the image being written
  attempts,                    \* run(): attempts left after this one
  written,                     \* run(): written_count_ before the image
  start,                       \* writeFlashLocked(): offset of the next block
  out,                         \* commands sent and events emitted by the last step
  lastDev,                     \* the last command or line pulse sent to the device
  sent,                        \* the kinds of command sent so far
  beginOpen,                   \* a flash_begin was sent and no flash_end since
  begun,                       \* the addresses flash_begin was sent for
  tries,                       \* flash_begin commands sent for the image at addr
  lastProgress,                \* the value of the last progress event (-1: none yet)
  lastSync,                    \* the last rebootIntoBootloader or trySync done
  input,                       \* the arguments of a call of a function by itself
  result                       \* what that call returned

config == <<char_signed, preserve_flash_params_, erase_bug_workaround_,
            override_flash_params_, generate_id_if_none_found_>>

locals == <<flashParams, params, addr, attempts, written, start>>

hist == <<out, lastDev, sent, beginOpen, begun, tries, lastProgress, lastSync>>

call == <<input, result>>

loader == <<loadResult, loading>>

vars == <<config, lock_, port_, images_, written_count_, loader, pc,
          locals, hist, call>>

\* ----------------------------------------------------------------------
\* Log entries: commands sent to the device and events emitted
\* ----------------------------------------------------------------------
\* d: for flash_data, how many of its c data bytes are 0xFF padding;
\* echo: for a command of a write attempt, the command code of the
\* response read for it (Response::command; -1 for every other entry)
E(op, a, b, c, s, ok) ==
  [op |-> op, a |-> a, b |-> b, c |-> c, d |-> 0, s |-> s, ok |-> ok,
   echo |-> -1]

Cmd(op, a, b, c, s, ok) == E(op, a, b, c, s, ok)

Event(op, a, s, ok) == E(op, a, 0, 0, s, ok)

DeviceOps == {"reboot_bl", "reboot_fw", "sync", "flash_begin", "flash_data",
              "flash_end", "mem_begin", "mem_data", "mem_end", "slip_read"}

NoEntry == E("none", 0, 0, 0, "", TRUE)

DevEntries(es) == SelectSeq(es, LAMBDA e : e.op \in DeviceOps)

Ops(es) == {es[i].op : i \in DOMAIN es}

WriteBegins(es) == SelectSeq(es, LAMBDA e : e.op = "flash_begin" /\ e.s = "write")

Progresses(es) == SelectSeq(es, LAMBDA e : e.op = "progress")

Syncs(es) == SelectSeq(es, LAMBDA e : e.op \in {"reboot_bl", "sync"})

\* whether a flash_begin is unmatched after es, if open tells it before
RECURSIVE OpenAfter(_, _)
OpenAfter(es, open) ==
  IF es = <<>> THEN open
  ELSE OpenAfter(Tail(es),
         IF Head(es).op = "flash_begin" THEN TRUE
         ELSE IF Head(es).op = "flash_end" THEN FALSE
         ELSE open)

\* the step sends and emits es, in this order
Emit(es) ==
  /\ out' = es
  /\ lastDev' = IF DevEntries(es) = <<>> THEN lastDev
                ELSE DevEntries(es)[Len(DevEntries(es))]
  /\ sent' = sent \cup (Ops(es) \cap DeviceOps)
  /\ beginOpen' = OpenAfter(es, beginOpen)
  /\ begun' = begun \cup {WriteBegins(es)[i].a : i \in DOMAIN WriteBegins(es)}
  /\ lastProgress' = IF Progresses(es) = <<>> THEN lastProgress
                     ELSE Progresses(es)[Len(Progresses(es))].a
  /\ lastSync' = IF Syncs(es) = <<>> THEN lastSync
                 ELSE Syncs(es)[Len(Syncs(es))]

\* ----------------------------------------------------------------------
\* char, QByteArray
\* ----------------------------------------------------------------------
\* the value of a byte read through char and promoted to int
Char(b) == IF char_signed /\ b >= 128 THEN b - 256 ELSE b

\* c[0] << 8 | c[1] on two chars
ParamsOf(b2, b3) == Or32(Shl8(Char(b2)), Char(b3))

Min(a, b) == IF a < b THEN a ELSE b

\* ----------------------------------------------------------------------
\* SLIP_write, SLIP_read
\* ----------------------------------------------------------------------
SLIPFrameDelimiter == 192

SLIPEscape == 219

SLIPEscapeFrameDelimiter == 220

SLIPEscapeEscape == 221

\* mutant of SLIP_write: the escape byte itself goes out as it is
RECURSIVE StuffedDelimiterOnly(_)
StuffedDelimiterOnly(bytes) ==
  IF bytes = <<>> THEN <<>>
  ELSE (IF Head(bytes) = SLIPFrameDelimiter
        THEN <<SLIPEscape, SLIPEscapeFrameDelimiter>>
        ELSE <<Head(bytes)>>) \o StuffedDelimiterOnly(Tail(bytes))

SLIP_writeDelimiterOnly(bytes) ==
  <<SLIPFrameDelimiter>> \o StuffedDelimiterOnly(bytes) \o <<SLIPFrameDelimiter>>

\* the loop of SLIP_write over the bytes: what putChar() is given
RECURSIVE Stuffed(_)
Stuffed(bytes) ==
  IF bytes = <<>> THEN <<>>
  ELSE (IF Head(bytes) = SLIPFrameDelimiter
        THEN <<SLIPEscape, SLIPEscapeFrameDelimiter>>
        ELSE IF Head(bytes) = SLIPEscape
        THEN <<SLIPEscape, SLIPEscapeEscape>>
        ELSE <<Head(bytes)>>) \o Stuffed(Tail(bytes))

\* the bytes SLIP_write(out, bytes) puts on the port
SLIP_write(bytes) ==
  <<SLIPFrameDelimiter>> \o Stuffed(bytes) \o <<SLIPFrameDelimiter>>

\* SLIP_read, the loop after the frame start: stream is what the port
\* still holds (no byte left: the read times out), ret what was decoded
RECURSIVE ReadFrame(_, _)
ReadFrame(stream, ret) ==
  IF stream = <<>> THEN ret
  ELSE IF Head(stream) = SLIPFrameDelimiter THEN ret
  ELSE IF Head(stream) = SLIPEscape
  THEN IF Tail(stream) = <<>> THEN ret
       ELSE IF Head(Tail(stream)) = SLIPEscapeFrameDelimiter
       THEN ReadFrame(Tail(Tail(stream)), Append(ret, SLIPFrameDelimiter))
       ELSE IF Head(Tail(stream)) = SLIPEscapeEscape
       THEN ReadFrame(Tail(Tail(stream)), Append(ret, SLIPEscape))
       ELSE ret
  ELSE ReadFrame(Tail(stream), Append(ret, Head(stream)))

\* SLIP_read(in): skip everything before the frame start, then decode
RECURSIVE SLIP_read(_)
SLIP_read(stream) ==
  IF stream = <<>> THEN <<>>
  ELSE IF Head(stream) # SLIPFrameDelimiter THEN SLIP_read(Tail(stream))
  ELSE ReadFrame(Tail(stream), <<>>)

\* ----------------------------------------------------------------------
\* Response, readResponse
\* ----------------------------------------------------------------------
readResponse(raw) ==
  IF raw.short THEN [valid |-> FALSE, command |-> 255, status |-> 0, lastError |-> 0]
  ELSE IF raw.direction # 1
       THEN [valid |-> FALSE, command |-> 255, status |-> 0, lastError |-> 0]
       ELSE [valid |-> TRUE, command |-> raw.command, status |-> raw.status,
             lastError |-> raw.lastError]

ResponseOk(resp) == resp.valid /\ resp.status = 0 /\ resp.lastError = 0

\* ----------------------------------------------------------------------
\* sync, trySync, rebootIntoBootloader
\* ----------------------------------------------------------------------
\* v: how many responses parse as valid before the first invalid one
sync(v) == v >= SyncResponses

RECURSIVE trySync(_, _)
trySync(vs, n) ==
  IF n <= 0 \/ vs = <<>> THEN FALSE
  ELSE IF sync(Head(vs)) THEN TRUE
       ELSE trySync(Tail(vs), n - 1)

rebootIntoBootloader(vs) == trySync(vs, RebootSyncAttempts)

\* device inputs to trySync(n): the first k-1 sync() calls see a bad
\* response, the others see 8 valid ones (k = n+1: none succeeds)
SyncInputs(n) ==
  { [i \in 1..n |-> IF i < k THEN 7 ELSE 8] : k \in 1..(n + 1) }

\* The same three functions response by response. A stream is what the
\* port delivers to the successive readResponse() calls, one code each:
\* 1 a well-formed response, 3 a well-formed response with status != 0,
\* 0 fewer than 10 bytes, 2 a wrong direction byte; after the last of the
\* stream every read times out.
RawOf(k) ==
  IF k = 1 THEN Raw(FALSE, 1, 8, 0, 0)
  ELSE IF k = 3 THEN Raw(FALSE, 1, 8, 1, 0)
  ELSE IF k = 2 THEN Raw(FALSE, 0, 8, 0, 0)
  ELSE Raw(TRUE, 1, 8, 0, 0)

\* mutant of syncLoop: the loop stops one response early
RECURSIVE syncLoopShort(_, _)
syncLoopShort(stream, i) ==
  IF i >= SyncResponses - 1 THEN [ok |-> TRUE, rest |-> stream]
  ELSE IF stream = <<>> THEN [ok |-> FALSE, rest |-> <<>>]
  ELSE IF ~readResponse(RawOf(Head(stream))).valid
       THEN [ok |-> FALSE, rest |-> Tail(stream)]
  ELSE syncLoopShort(Tail(stream), i + 1)

\* sync(): for (int i = 0; i < 8; i++) from i on; rest: what is left unread
RECURSIVE syncLoop(_, _)
syncLoop(stream, i) ==
  IF i >= SyncResponses THEN [ok |-> TRUE, rest |-> stream]
  ELSE IF stream = <<>> THEN [ok |-> FALSE, rest |-> <<>>]
  ELSE IF ~readResponse(RawOf(Head(stream))).valid
       THEN [ok |-> FALSE, rest |-> Tail(stream)]
  ELSE syncLoop(Tail(stream), i + 1)

\* sync(): writeCommand(serial, 0x08, payload), then the loop; cmds: the
\* command codes written
syncCall(stream) ==
  [ok |-> syncLoop(stream, 0).ok, rest |-> syncLoop(stream, 0).rest, cmds |-> <<8>>]

\* trySync(serial, attempts) with n for attempts; cmds: the commands written before
RECURSIVE trySyncCall(_, _, _)
trySyncCall(stream, n, cmds) ==
  IF ~(n > 0) THEN [ok |-> FALSE, rest |-> stream, cmds |-> cmds]
  ELSE LET s == syncCall(stream) IN
    IF s.ok THEN [ok |-> TRUE, rest |-> s.rest, cmds |-> cmds \o s.cmds]
    ELSE trySyncCall(s.rest, n - 1, cmds \o s.cmds)

\* rebootIntoBootloader(): the DTR/RTS pulse, then trySync(serial, 3);
\* pulses: how many times RTS was raised and dropped
rebootIntoBootloaderCall(stream) ==
  LET r == trySyncCall(stream, RebootSyncAttempts, <<>>)
  IN [ok |-> r.ok, rest |-> r.rest, cmds |-> r.cmds, pulses |-> 1]

\* ----------------------------------------------------------------------
\* load
\* ----------------------------------------------------------------------
EmptyImages == [a \in {} |-> [len |-> 0, hdr |-> <<>>]]

Put(imgs, a, img) == [x \in (DOMAIN imgs) \cup {a} |-> IF x = a THEN img ELSE imgs[x]]

RECURSIVE LoadFiles(_, _, _)
LoadFiles(files, i, imgs) ==
  IF i > Len(files) THEN [images |-> imgs, msg |-> ""]
  ELSE LET f == files[i] IN
    IF ~f.addrOk THEN [images |-> imgs, msg |-> "is not a valid address"]
    ELSE IF ~f.openOk THEN [images |-> imgs, msg |-> "failed to open"]
    ELSE IF ~f.sizeOk THEN [images |-> EmptyImages, msg |-> "size mismatch"]
    ELSE LoadFiles(files, i + 1, Put(imgs, f.addr, [len |-> f.len, hdr |-> f.hdr]))

load(dir) ==
  IF ~dir.exists THEN [images |-> EmptyImages, msg |-> "directory does not exist"]
  ELSE IF Len(dir.files) = 0 THEN [images |-> EmptyImages, msg |-> "no files to flash"]
  ELSE LoadFiles(dir.files, 1, EmptyImages)

\* ----------------------------------------------------------------------
\* QMap::keys(): ascending
\* ----------------------------------------------------------------------
MinOf(S) == CHOOSE x \in S : \A y \in S : x <= y

KeysAfter(imgs, a) == {k \in DOMAIN imgs : k > a}

totalBlocksOf(imgs) ==
  LET Blk(k) == imgs[k].len \div writeBlockSize
                + (IF imgs[k].len % writeBlockSize # 0 THEN 1 ELSE 0)
      RECURSIVE Sum(_)
      Sum(S) == IF S = {} THEN 0
                ELSE LET k == MinOf(S) IN Blk(k) + Sum(S \ {k})
  IN Sum(DOMAIN imgs)

\* ----------------------------------------------------------------------
\* fixupEraseLength
\* ----------------------------------------------------------------------
\* mutant of fixupEraseLength: half the sectors, rounded down
fixupEraseLengthFloor(st, len) ==
  LET s0 == st \div sectorSize
      tail == sectorsPerBlock - (s0 % sectorsPerBlock)
      sectors == len \div sectorSize + (IF len % sectorSize # 0 THEN 1 ELSE 0)
  IN IF sectors <= 2 * tail
     THEN (sectors \div 2) * sectorSize
     ELSE len - tail * sectorSize

fixupEraseLength(st, len) ==
  LET s0 == st \div sectorSize
      tail == sectorsPerBlock - (s0 % sectorsPerBlock)
      sectors == len \div sectorSize + (IF len % sectorSize # 0 THEN 1 ELSE 0)
  IN IF sectors <= 2 * tail
     THEN (sectors \div 2 + (sectors % 2)) * sectorSize
     ELSE len - tail * sectorSize

\* the sectors a length in bytes covers (ulong sectors of fixupEraseLength)
SectorsOf(len) == len \div sectorSize + (IF len % sectorSize # 0 THEN 1 ELSE 0)

\* the sectors from the sector of address st to the end of its 64KB block
\* (ulong tail of fixupEraseLength)
TailOf(st) == sectorsPerBlock - ((st \div sectorSize) % sectorsPerBlock)

\* f(x,t) of the comment in fixupEraseLength: the sectors the ROM's
\* SPIEraseArea erases when asked for x
RomErased(x, t) == IF x <= t THEN 2 * x ELSE x + t

blocksOf(len) == len \div writeBlockSize + (IF len % writeBlockSize = 0 THEN 0 ELSE 1)

eraseLength(a, blocks) ==
  IF erase_bug_workaround_
  THEN fixupEraseLength(a, blocks * writeBlockSize)
  ELSE blocks * writeBlockSize

\* ----------------------------------------------------------------------
\* writeFlashStartLocked, writeFlashBlockLocked, leaveFlashingModeLocked
\* ----------------------------------------------------------------------
writeFlashStartLocked(raw) == ResponseOk(readResponse(raw))

writeFlashBlockLocked(raw) == ResponseOk(readResponse(raw))

\* mutant of leaveFlashingModeLocked: the workaround is not applied
leaveFlashingModeLockedStrict(raw) == ResponseOk(readResponse(raw))

leaveFlashingModeLocked(raw) ==
  IF ~ResponseOk(readResponse(raw))
  THEN (IF erase_bug_workaround_ THEN TRUE ELSE FALSE)
  ELSE TRUE

\* ----------------------------------------------------------------------
\* readFlashLocked, readFlashParamsLocked, findIdLocked
\* ----------------------------------------------------------------------
Frame(len, hdr, term, hashok) ==
  [len |-> len, hdr |-> hdr, term |-> term, hashok |-> hashok]

NoFrame == Frame(0, <<>>, -1, FALSE)

\* SLIP frames the device may send back for a read of 4 bytes at 0
ParamFrames ==
  { Frame(n, SubSeq(<<m, 0, p[1], p[2]>>, 1, Min(n, 4)), -1, FALSE) :
      n \in {3, 4, 5}, m \in DeviceMagicSamples, p \in DeviceParamSamples }

\* SLIP frames the device may send back for a read of the ID block
IdFrames ==
  { Frame(n, <<0, 0, 0, 0>>, tm, h) :
      n \in {idBlockSize - 1, idBlockSize, idBlockSize + 1},
      tm \in {-1, 60}, h \in BOOLEAN }

GoodRaw(cmd) == Raw(FALSE, 1, cmd, 0, 0)

\* answers to the four commands of a read: all fine, or the k-th is bad
ReadRaws(ks) ==
  { [i \in 1..4 |-> IF i = k THEN bad ELSE GoodRaw(0)] :
      k \in ks, bad \in {Raw(TRUE, 1, 0, 0, 0), Raw(FALSE, 1, 0, 1, 0)} }

\* what the device does during one readFlashLocked: its answers to the
\* commands, the SLIP frame it sends, its answers to the final trySync
\* (nothing is read after a command that failed)
ReadInputs(frames) ==
  [raws : ReadRaws(1..4), frame : {NoFrame},
   vs : {[i \in 1..ReadSyncAttempts |-> 8]}]
  \cup [raws : ReadRaws({0}), frame : frames, vs : SyncInputs(ReadSyncAttempts)]

\* mutant of readFlashLocked: the frame is returned without the trySync
readFlashLockedNoSync(offset, len, dev) ==
  LET
      c1 == Cmd("flash_begin", 0, 0, eraseLength(0, 0), "read",
                writeFlashStartLocked(dev.raws[1]))
      c2 == Cmd("mem_begin", offset, len, 1, "", ResponseOk(readResponse(dev.raws[2])))
      c3 == Cmd("mem_data", 0, 0, 0, "", ResponseOk(readResponse(dev.raws[3])))
      c4 == Cmd("mem_end", 0, 0, 0, "", ResponseOk(readResponse(dev.raws[4])))
      c5 == Cmd("slip_read", dev.frame.len, dev.frame.term,
                IF dev.frame.hashok THEN 1 ELSE 0, "", ~(dev.frame.len < len))
      c6 == Cmd("sync", ReadSyncAttempts, 0, 0, "", trySync(dev.vs, ReadSyncAttempts))
      Fail(cmds, msg) == [ok |-> FALSE, code |-> "ABORTED", msg |-> msg,
                          r |-> NoFrame, cmds |-> cmds]
  IN IF ~c1.ok THEN Fail(<<c1>>, "failed to initialize flash")
     ELSE IF ~c2.ok THEN Fail(<<c1, c2>>, "failed to start writing to RAM")
     ELSE IF ~c3.ok THEN Fail(<<c1, c2, c3>>, "failed to write to RAM")
     ELSE IF ~c4.ok THEN Fail(<<c1, c2, c3, c4>>, "failed to initialize flash")
     ELSE IF ~c5.ok THEN Fail(<<c1, c2, c3, c4, c5>>, "failed to read flash")
     ELSE [ok |-> TRUE, code |-> "OK", msg |-> "", r |-> dev.frame,
           cmds |-> <<c1, c2, c3, c4, c5>>]

\* dev: the device's answers. Result: ok, the status, the frame r, the
\* commands sent
readFlashLocked(offset, len, dev) ==
  LET
      c1 == Cmd("flash_begin", 0, 0, eraseLength(0, 0), "read",
                writeFlashStartLocked(dev.raws[1]))
      c2 == Cmd("mem_begin", offset, len, 1, "", ResponseOk(readResponse(dev.raws[2])))
      c3 == Cmd("mem_data", 0, 0, 0, "", ResponseOk(readResponse(dev.raws[3])))
      c4 == Cmd("mem_end", 0, 0, 0, "", ResponseOk(readResponse(dev.raws[4])))
      c5 == Cmd("slip_read", dev.frame.len, dev.frame.term,
                IF dev.frame.hashok THEN 1 ELSE 0, "", ~(dev.frame.len < len))
      c6 == Cmd("sync", ReadSyncAttempts, 0, 0, "", trySync(dev.vs, ReadSyncAttempts))
      Fail(cmds, msg) == [ok |-> FALSE, code |-> "ABORTED", msg |-> msg,
                          r |-> NoFrame, cmds |-> cmds]
  IN IF ~c1.ok THEN Fail(<<c1>>, "failed to initialize flash")
     ELSE IF ~c2.ok THEN Fail(<<c1, c2>>, "failed to start writing to RAM")
     ELSE IF ~c3.ok THEN Fail(<<c1, c2, c3>>, "failed to write to RAM")
     ELSE IF ~c4.ok THEN Fail(<<c1, c2, c3, c4>>, "failed to initialize flash")
     ELSE IF ~c5.ok THEN Fail(<<c1, c2, c3, c4, c5>>, "failed to read flash")
     ELSE IF ~c6.ok
     THEN Fail(<<c1, c2, c3, c4, c5, c6>>,
               "failed to jump to bootloader after reading flash")
     ELSE [ok |-> TRUE, code |-> "OK", msg |-> "", r |-> dev.frame,
           cmds |-> <<c1, c2, c3, c4, c5, c6>>]

\* the bytes returned (empty on failure) and the commands sent
readFlashParamsLocked(dev) ==
  LET res == readFlashLocked(0, 4, dev) IN
  IF ~res.ok THEN [bytes |-> <<>>, cmds |-> res.cmds]
  ELSE IF res.r.hdr[1] # BootMagic THEN [bytes |-> <<>>, cmds |-> res.cmds]
  ELSE [bytes |-> SubSeq(res.r.hdr, 3, 4), cmds |-> res.cmds]

\* mutant of IdPresent: the hash is not compared
IdPresentAnyHash(r) == IF r.term < 0 THEN FALSE ELSE TRUE

\* findIdLocked, after the read: r.term is r.indexOf('\0', SHA1Length), the
\* index of the first 0x00 at or after byte 20 (-1: none); r.hashok tells
\* whether the first 20 bytes are the SHA-1 of the bytes from 20 up to it
IdPresent(r) == IF r.term < 0 THEN FALSE ELSE r.hashok

findIdLocked(dev) ==
  LET res == readFlashLocked(idBlockOffset, idBlockSize, dev) IN
  IF ~res.ok THEN [ok |-> FALSE, found |-> FALSE, cmds |-> res.cmds]
  ELSE [ok |-> TRUE, found |-> IdPresent(res.r), cmds |-> res.cmds]

\* the image run() installs at idBlockOffset: generateIdBlock(id_hostname_)
\* for a host name that leaves room for the padding, as its length and
\* first four bytes
generateIdBlock == [len |-> idBlockSize, hdr |-> IdHashSample]

\* QCryptographicHash::hash(data, Sha1): 20 bytes that stand for the hash
\* of data (two hashes are equal only if the data are)
Sha1(data) == [i \in 1..SHA1Length |-> <<"sha1", i, data>>]

\* the UTF-8 bytes of {"id":"//<host>/d/<id>","key":"<key>"}; host holds no
\* place marker (%1, %2, ...) of QString::arg
IdJson(host, id, key) ==
  <<123, 34, 105, 100, 34, 58, 34, 47, 47>> \o host \o <<47, 100, 47>> \o id
  \o <<34, 44, 34, 107, 101, 121, 34, 58, 34>> \o key \o <<34, 125>>

\* QByteArray("\xFF").repeated(n): empty when n <= 0
Repeated255(n) == [i \in 1..(IF n > 0 THEN n ELSE 0) |-> 255]

\* generateIdBlock(id_hostname) byte by byte; id and key are the base64url
\* texts of the 5 and 7 random bytes
generateIdBlockBytes(host, id, key) ==
  LET data == IdJson(host, id, key)
      r == Sha1(data) \o data \o <<0>>
  IN r \o Repeated255(idBlockSize - Len(r))

\* r.indexOf(v, from), indices counted from 0; -1: not found
IndexOf(r, v, from) ==
  LET S == {i \in (from + 1)..Len(r) : r[i] = v}
  IN IF S = {} THEN -1 ELSE MinOf(S) - 1

\* what findIdLocked computes of the bytes r read: the terminator and
\* whether the hash matches
FrameOf(r) ==
  LET terminator == IndexOf(r, 0, SHA1Length)
  IN Frame(Len(r), SubSeq(r, 1, 4), terminator,
           IF terminator < 0 THEN FALSE
           ELSE SubSeq(r, 1, SHA1Length)
                  = Sha1(SubSeq(r, SHA1Length + 1, terminator)))

\* ----------------------------------------------------------------------
\* Construction
\* ----------------------------------------------------------------------
\* a call of a function by itself: fn names it, a, b, s are its arguments
Input(fn, a, b, s) == [fn |-> fn, a |-> a, b |-> b, s |-> s]

NoInput == Input("none", 0, 0, <<>>)

NoResult == [fn |-> "none"]

\* the engine as FlasherImpl's constructor leaves it
Constructed ==
  /\ char_signed \in BOOLEAN
  /\ preserve_flash_params_ \in BOOLEAN
  /\ erase_bug_workaround_ \in BOOLEAN
  /\ override_flash_params_ \in OverrideSamples
  /\ generate_id_if_none_found_ \in BOOLEAN
  /\ lock_ = FALSE
  /\ port_ = NoPort
  /\ images_ = EmptyImages
  /\ written_count_ = 0
  /\ loadResult = ""
  /\ loading = FALSE
  /\ pc = "idle"
  /\ flashParams = -1
  /\ params = <<>>
  /\ addr = 0
  /\ attempts = 0
  /\ written = 0
  /\ start = 0
  /\ out = <<>>
  /\ lastDev = NoEntry
  /\ sent = {}
  /\ beginOpen = FALSE
  /\ begun = {}
  /\ tries = 0
  /\ lastProgress = -1
  /\ lastSync = NoEntry

Init ==
  /\ Constructed
  /\ input = NoInput
  /\ result = NoResult

\* ----------------------------------------------------------------------
\* load(), setPort(), totalBlocks()
\* ----------------------------------------------------------------------
\* mutant of Lockable: the mutex is not taken
LockableAlways == TRUE

\* QMutexLocker lock(&lock_): the caller gets past it when the mutex is free
Lockable == ~lock_

\* load(): the mutex is taken and images_.clear() done
LoadClear ==
  /\ pc # "done" /\ Lockable
  /\ lock_' = TRUE
  /\ loading' = TRUE
  /\ images_' = EmptyImages
  /\ Emit(<<>>)
  /\ UNCHANGED <<config, call, port_, written_count_, loadResult, pc, locals, tries>>

\* load(): the directory is read, the files are put into images_, the
\* message is returned and the mutex released
Load ==
  /\ loading
  /\ \E dir \in DirSamples :
       LET res == load(dir) IN
         /\ images_' = res.images
         /\ loadResult' = res.msg
  /\ lock_' = FALSE
  /\ loading' = FALSE
  /\ Emit(<<>>)
  /\ UNCHANGED <<config, call, port_, written_count_, pc, locals, tries>>

SetPort ==
  /\ pc # "done" /\ Lockable
  /\ \E p \in Ports : port_' = p
  /\ Emit(<<>>)
  /\ UNCHANGED <<config, call, lock_, images_, written_count_, loader, pc, locals, tries>>

\* totalBlocks(): the value returned is recorded as an event
TotalBlocks ==
  /\ pc # "done" /\ Lockable
  /\ Emit(<<Event("totalBlocks", totalBlocksOf(images_), "", TRUE)>>)
  /\ UNCHANGED <<config, call, lock_, port_, images_, written_count_, loader, pc,
                 locals, tries>>

\* ----------------------------------------------------------------------
\* run()
\* ----------------------------------------------------------------------
\* mutant of Done: every outcome is reported as a success
DoneAlwaysTrue(msg, a, success) == Event("done", a, msg, TRUE)

\* emit done(msg, success); a: the address the message names
Done(msg, a, success) == Event("done", a, msg, success)

\* mutant of Return: after done, run() goes on at the end of its loop
ReturnAndGoOn(es) ==
  /\ Emit(es)
  /\ pc' = "finish"
  /\ lock_' = FALSE

\* run() sends and emits es, the last of them done, and returns: the
\* mutex is released
Return(es) ==
  /\ Emit(es)
  /\ pc' = "done"
  /\ lock_' = FALSE

\* run(): rebootIntoBootloader(port_) at entry
RunStart ==
  /\ pc = "idle" /\ Lockable /\ port_ # NoPort
  /\ \E vs \in SyncInputs(RebootSyncAttempts) :
       LET ok == rebootIntoBootloader(vs)
           c == Cmd("reboot_bl", 0, 0, 0, "", ok)
       IN IF ok
          THEN /\ Emit(<<c>>)
               /\ pc' = "params"
               /\ lock_' = TRUE
          ELSE Return(<<c, Done("Failed to talk to bootloader", 0, FALSE)>>)
  /\ UNCHANGED <<config, call, port_, images_, written_count_, loader, locals, tries>>

\* run(): int flashParams = -1; override, or read from the device
DetermineParams ==
  /\ pc = "params"
  /\ IF override_flash_params_ >= 0
     THEN /\ flashParams' = override_flash_params_
          /\ pc' = "patch"
          /\ Emit(<<>>)
          /\ UNCHANGED <<params, lock_>>
     ELSE IF preserve_flash_params_
     THEN \E dev \in ReadInputs(ParamFrames) :
            LET res == readFlashParamsLocked(dev) IN
              /\ params' = res.bytes
              /\ IF Len(res.bytes) = 2
                 THEN /\ flashParams' = ParamsOf(res.bytes[1], res.bytes[2])
                      /\ pc' = "patch"
                      /\ Emit(res.cmds)
                      /\ UNCHANGED lock_
                 ELSE /\ flashParams' = -1
                      /\ Return(Append(res.cmds,
                           Done("failed to read flash params from the existing firmware",
                                0, FALSE)))
     ELSE /\ flashParams' = -1
          /\ pc' = "patch"
          /\ Emit(<<>>)
          /\ UNCHANGED <<params, lock_>>
  /\ UNCHANGED <<config, call, port_, images_, written_count_, loader,
                 addr, attempts, written, start, tries>>

\* images_.contains(0) && images_[0].length() >= 4 && images_[0][0] == 0xE9
IsBootImage(imgs) ==
  /\ 0 \in DOMAIN imgs
  /\ imgs[0].len >= 4
  /\ imgs[0].hdr[1] = BootMagic

\* mutant of PatchedHeader: the bytes go to offsets 0 and 1
PatchedHeaderAtStart(hdr, fp) ==
  [hdr EXCEPT ![1] = HighByte(fp), ![2] = LowByte(fp)]

\* images_[0][2] = (flashParams >> 8) & 0xff; images_[0][3] = flashParams & 0xff
PatchedHeader(hdr, fp) ==
  [hdr EXCEPT ![3] = HighByte(fp), ![4] = LowByte(fp)]

\* run(): patch the boot image, take flashParams from it
PatchBootImage ==
  /\ pc = "patch"
  /\ IF IsBootImage(images_)
     THEN LET h == IF flashParams >= 0
                   THEN PatchedHeader(images_[0].hdr, flashParams)
                   ELSE images_[0].hdr
          IN /\ images_' = [images_ EXCEPT ![0].hdr = h]
             /\ flashParams' = ParamsOf(h[3], h[4])
     ELSE UNCHANGED <<images_, flashParams>>
  /\ pc' = "findid"
  /\ Emit(<<>>)
  /\ UNCHANGED <<config, call, lock_, port_, written_count_, loader,
                 params, addr, attempts, written, start, tries>>

\* mutant of NextImage: the keys are visited in descending order
NextImageDescending(imgs, a, count, t) ==
  IF DOMAIN imgs \ (begun \cup {a}) = {}
  THEN /\ pc' = "finish"
       /\ tries' = t
       /\ UNCHANGED <<addr, attempts, written>>
  ELSE /\ pc' = "begin"
       /\ addr' = CHOOSE x \in DOMAIN imgs \ (begun \cup {a}) :
                     \A y \in DOMAIN imgs \ (begun \cup {a}) : x >= y
       /\ written' = count
       /\ attempts' = FirstAttemptsLeft
       /\ tries' = 0

\* for (ulong addr : images_.keys()): entry of the body for the next key
\* after a, or the end of the loop
NextImage(imgs, a, count, t) ==
  IF KeysAfter(imgs, a) = {}
  THEN /\ pc' = "finish"
       /\ tries' = t
       /\ UNCHANGED <<addr, attempts, written>>
  ELSE /\ pc' = "begin"
       /\ addr' = MinOf(KeysAfter(imgs, a))
       /\ written' = count
       /\ attempts' = FirstAttemptsLeft
       /\ tries' = 0

\* run(): generate_id_if_none_found_, then written_count_ = 0 and the
\* entry of the loop over the images
FindId ==
  /\ pc = "findid"
  /\ IF generate_id_if_none_found_
     THEN \E dev \in ReadInputs(IdFrames) :
            LET res == findIdLocked(dev) IN
              IF res.ok
              THEN /\ images_' = IF res.found THEN images_
                                 ELSE Put(images_, idBlockOffset, generateIdBlock)
                   /\ Emit(res.cmds)
                   /\ written_count_' = 0
                   /\ NextImage(images_', -1, 0, tries)
                   /\ UNCHANGED lock_
              ELSE /\ Return(Append(res.cmds,
                        Done("failed to check for ID presence", 0, FALSE)))
                   /\ UNCHANGED <<images_, written_count_, addr, attempts, written, tries>>
     ELSE /\ written_count_' = 0
          /\ NextImage(images_, -1, 0, tries)
          /\ Emit(<<>>)
          /\ UNCHANGED <<images_, lock_>>
  /\ start' = 0
  /\ UNCHANGED <<config, call, port_, loader, flashParams, params>>

\* writeFlashLocked(): status message, then flash_begin
WriteStart ==
  /\ pc = "begin"
  /\ \E raw \in RawSamples(2) :
       LET img == images_[addr]
           blocks == blocksOf(img.len)
           ok == writeFlashStartLocked(raw)
       IN /\ Emit(<< Event("status", addr, "Erasing flash", TRUE),
                     [Cmd("flash_begin", addr, blocks, eraseLength(addr, blocks),
                          "write", ok)
                        EXCEPT !.echo = readResponse(raw).command] >>)
          /\ start' = 0
          /\ IF ~ok
             THEN /\ pc' = "failed"
                  /\ tries' = tries + 1
                  /\ UNCHANGED <<addr, attempts, written>>
             ELSE IF 0 < img.len
             THEN /\ pc' = "block"
                  /\ tries' = tries + 1
                  /\ UNCHANGED <<addr, attempts, written>>
             ELSE NextImage(images_, addr, written_count_, tries + 1)
  /\ UNCHANGED <<config, call, lock_, port_, images_, written_count_, loader,
                 flashParams, params>>

\* mutant of BlockData: a whole block of padding is appended
BlockDataOverPadded(len, st) ==
  LET real == Min(writeBlockSize, len - st)
  IN [real |-> real,
      pad |-> IF real < writeBlockSize THEN writeBlockSize ELSE 0]

\* bytes.mid(start, writeBlockSize), padded with 0xFF: [real, pad] byte counts
BlockData(len, st) ==
  LET real == Min(writeBlockSize, len - st)
  IN [real |-> real,
      pad |-> IF real < writeBlockSize THEN writeBlockSize - real ELSE 0]

\* mutant of SeqOf: the byte offset is sent as the sequence number
SeqOfBytes(st) == st

\* start / writeBlockSize: the sequence number of the block at offset st
SeqOf(st) == st \div writeBlockSize

\* writeFlashLocked(): one turn of the loop over the blocks
WriteBlock ==
  /\ pc = "block"
  /\ \E raw \in RawSamples(3) :
       LET img == images_[addr]
           seq == SeqOf(start)
           data == BlockData(img.len, start)
           ok == writeFlashBlockLocked(raw)
           es == << E("status", addr, seq, 0, "Writing block", TRUE),
                    [Cmd("flash_data", addr, seq, data.real + data.pad, "", ok)
                       EXCEPT !.d = data.pad,
                              !.echo = readResponse(raw).command] >>
       IN IF ~ok
          THEN /\ pc' = "failed"
               /\ Emit(es)
               /\ UNCHANGED <<written_count_, start, addr, attempts, written, tries>>
          ELSE /\ written_count_' = written_count_ + 1
               /\ Emit(Append(es, Event("progress", written_count_ + 1, "", TRUE)))
               /\ start' = start + writeBlockSize
               /\ IF start + writeBlockSize < img.len
                  THEN /\ pc' = "block"
                       /\ UNCHANGED <<addr, attempts, written, tries>>
                  ELSE NextImage(images_, addr, written_count_ + 1, tries)
  /\ UNCHANGED <<config, call, lock_, port_, images_, loader, flashParams, params>>

\* mutant of Rewind: the counter is left where the failed attempt took it
RewindNot(w, count) == count

\* run(): written_count_ = written after a failed attempt
Rewind(w, count) == w

\* mutant of RebootFailed: the loop goes on after a reboot that failed
RebootFailedIgnored(ok) == FALSE

\* run(): if (!rebootIntoBootloader(port_)) break;
RebootFailed(ok) == ~ok

\* run(): a write attempt failed: rewind, reboot, retry or give up
AttemptFailed ==
  /\ pc = "failed"
  /\ \E vs \in SyncInputs(RebootSyncAttempts) :
       LET ok == rebootIntoBootloader(vs)
           w == Rewind(written, written_count_)
           es == << Event("progress", w, "", TRUE),
                    Cmd("reboot_bl", 0, 0, 0, "", ok) >>
           failed == Append(es, Done("failed to flash image at", addr, FALSE))
       IN /\ written_count_' = w
          /\ IF RebootFailed(ok)
             THEN /\ Return(failed)
                  /\ UNCHANGED attempts
             ELSE IF attempts - 1 >= 0
             THEN /\ attempts' = attempts - 1
                  /\ pc' = "begin"
                  /\ Emit(es)
                  /\ UNCHANGED lock_
             ELSE /\ attempts' = attempts - 1
                  /\ Return(failed)
  /\ UNCHANGED <<config, call, port_, images_, loader, flashParams, params,
                 addr, written, start, tries>>

\* run(): switch ((flashParams >> 8) & 0xff) after the loop
Finish ==
  /\ pc = "finish"
  /\ IF HighByte(flashParams) = ModeDIO
     THEN Return(<< Cmd("reboot_fw", 0, 0, 0, "", TRUE), Done("All done!", 0, TRUE) >>)
     ELSE \E raw \in RawSamples(4) :
            LET c == Cmd("flash_end", 1, 0, 0, "", ResponseOk(readResponse(raw)))
            IN IF ~leaveFlashingModeLocked(raw)
               THEN Return(<<c, Done("failed to leave flashing mode", 0, FALSE)>>)
               ELSE Return(<<c, Done("All done!", 0, TRUE)>>)
  /\ UNCHANGED <<config, call, port_, images_, written_count_, loader, locals, tries>>

Next ==
  \/ LoadClear
  \/ Load
  \/ SetPort
  \/ TotalBlocks
  \/ RunStart
  \/ DetermineParams
  \/ PatchBootImage
  \/ FindId
  \/ WriteStart
  \/ WriteBlock
  \/ AttemptFailed
  \/ Finish

Spec == Init /\ [][Next]_vars

\* a step of the thread that executes run(), once it holds the mutex
RunStep ==
  \/ DetermineParams
  \/ PatchBootImage
  \/ FindId
  \/ WriteStart
  \/ WriteBlock
  \/ AttemptFailed
  \/ Finish

\* The engine with a thread inside run() that keeps being scheduled; every
\* step of run() ends, each serial read by a response or by its timeout
LiveSpec == Init /\ [][Next]_vars /\ WF_vars(RunStep)

\* ----------------------------------------------------------------------
\* flashParamsFromString (a text is the sequence of its character codes)
\* ----------------------------------------------------------------------
flashMode ==
  <<113, 105, 111>> :> 0  \* qio
  @@ <<113, 111, 117, 116>> :> 1  \* qout
  @@ <<100, 105, 111>> :> 2  \* dio
  @@ <<100, 111, 117, 116>> :> 3  \* dout

flashSize ==
  <<52, 109>> :> 0  \* 4m
  @@ <<50, 109>> :> 1  \* 2m
  @@ <<56, 109>> :> 2  \* 8m
  @@ <<49, 54, 109>> :> 3  \* 16m
  @@ <<51, 50, 109>> :> 4  \* 32m
  @@ <<49, 54, 109, 45, 99, 49>> :> 5  \* 16m-c1
  @@ <<51, 50, 109, 45, 99, 49>> :> 6  \* 32m-c1
  @@ <<51, 50, 109, 45, 99, 50>> :> 7  \* 32m-c2

flashFreq ==
  <<52, 48, 109>> :> 0  \* 40m
  @@ <<50, 54, 109>> :> 1  \* 26m
  @@ <<50, 48, 109>> :> 2  \* 20m
  @@ <<56, 48, 109>> :> 15  \* 80m

\* the value of a digit character: 0..9, a..f, A..F
DigitOf ==
  [c \in (48..57) \cup (97..102) \cup (65..70) |->
     IF c <= 57 THEN c - 48 ELSE IF c >= 97 THEN c - 87 ELSE c - 55]

IntMax == 2147483647

IntMin == -IntMax - 1

\* s.split(','): the texts between the commas, empty ones included
RECURSIVE Split(_)
Split(s) ==
  LET S == {i \in DOMAIN s : s[i] = 44}
  IN IF S = {} THEN <<s>>
     ELSE <<SubSeq(s, 1, MinOf(S) - 1)>> \o Split(SubSeq(s, MinOf(S) + 1, Len(s)))

\* the digits ds in base, accumulated below zero from acc; ok is FALSE
\* when a character is no digit of the base or the value leaves int
RECURSIVE Accumulate(_, _, _)
Accumulate(ds, base, acc) ==
  IF ds = <<>> THEN [ok |-> TRUE, v |-> acc]
  ELSE IF Head(ds) \notin DOMAIN DigitOf THEN [ok |-> FALSE, v |-> 0]
  ELSE IF DigitOf[Head(ds)] >= base THEN [ok |-> FALSE, v |-> 0]
  ELSE IF acc < (IntMin + DigitOf[Head(ds)] + base - 1) \div base
       THEN [ok |-> FALSE, v |-> 0]
  ELSE Accumulate(Tail(ds), base, acc * base - DigitOf[Head(ds)])

\* s.toInt(&ok, 0): an optional sign, then 0x and hexadecimal digits, or 0
\* and octal digits, or decimal digits, nothing else; ok is FALSE when
\* the text is not that or the value does not fit int
toInt(s) ==
  LET signed == s # <<>> /\ s[1] \in {45, 43}
      neg == s # <<>> /\ s[1] = 45
      body == IF signed THEN Tail(s) ELSE s
      hex == Len(body) >= 2 /\ body[1] = 48 /\ body[2] \in {120, 88}
      oct == ~hex /\ Len(body) >= 1 /\ body[1] = 48
      ds == IF hex THEN SubSeq(body, 3, Len(body)) ELSE body
      acc == Accumulate(ds, IF hex THEN 16 ELSE IF oct THEN 8 ELSE 10, 0)
  IN IF ds = <<>> \/ ~acc.ok THEN [ok |-> FALSE, v |-> 0]
     ELSE IF neg THEN [ok |-> TRUE, v |-> acc.v]
     ELSE IF acc.v = IntMin THEN [ok |-> FALSE, v |-> 0]
     ELSE [ok |-> TRUE, v |-> -acc.v]

\* mutant of Mask16: the value is returned as parsed
Mask16Not(r) == r

\* r & 0xffff on int
Mask16(r) == r % 65536

Status(code, msg) == [fn |-> "flashParamsFromString", ok |-> FALSE, v |-> 0,
                      code |-> code, msg |-> msg]

Value(v) == [fn |-> "flashParamsFromString", ok |-> TRUE, v |-> v,
             code |-> "OK", msg |-> ""]

flashParamsFromString(s) ==
  LET parts == Split(s) IN
  IF Len(parts) = 1
  THEN IF ~toInt(s).ok THEN Status("INVALID_ARGUMENT", "invalid number")
       ELSE Value(Mask16(toInt(s).v))
  ELSE IF Len(parts) = 3
  THEN IF parts[1] \notin DOMAIN flashMode
       THEN Status("INVALID_ARGUMENT", "invalid flash mode")
       ELSE IF parts[2] \notin DOMAIN flashSize
       THEN Status("INVALID_ARGUMENT", "invalid flash size")
       ELSE IF parts[3] \notin DOMAIN flashFreq
       THEN Status("INVALID_ARGUMENT", "invalid flash frequency")
       ELSE Value(Or32(Or32(Shl8(flashMode[parts[1]]), flashSize[parts[2]] * 16),
                       flashFreq[parts[3]]))
  ELSE Status("INVALID_ARGUMENT",
              "must be either a number or a comma-separated list of three items")

\* ----------------------------------------------------------------------
\* The functions of the file called by themselves: the engine stays as
\* constructed, the arguments are drawn at the start, one call is made
\* ----------------------------------------------------------------------
engine == <<config, lock_, port_, images_, written_count_, loader, pc,
            locals, hist>>

\* Bounds: the start sectors and the lengths in sectors tried
MaxStartSector == 16

MaxSectors == 34

\* fixupEraseLength(start, len): sector-aligned starts over a whole 64KB
\* block and the start of the next, an unaligned one, and the lengths
\* around every sector boundary; the two calls the documentation works out
EraseInputs ==
  { Input("fixupEraseLength", s * sectorSize + o, q * sectorSize + r, <<>>) :
      s \in 0..MaxStartSector, o \in {0}, q \in 0..(MaxSectors - 1),
      r \in {1, writeBlockSize, sectorSize - 1, sectorSize} }
  \cup { Input("fixupEraseLength", 5120, q * sectorSize, <<>>) : q \in 1..MaxSectors }
  \cup { Input("fixupEraseLength", 65536, 16384, <<>>),
         Input("fixupEraseLength", 65536, 1048576, <<>>) }

\* writeFlashStartLocked(addr, blocks): the images of 0 .. 4 * MaxSectors
\* blocks at the sector-aligned addresses
BeginInputs ==
  { Input("eraseLength", s * sectorSize, n, <<>>) :
      s \in 0..MaxStartSector, n \in 0..(4 * MaxSectors) }

\* Bound: the length of the byte sequences framed
MaxFrameLen == 3

\* the bytes SLIP treats specially, and an ordinary one
SlipBytes == {SLIPFrameDelimiter, SLIPEscape, SLIPEscapeFrameDelimiter,
              SLIPEscapeEscape, 1}

\* all sequences over S of length at most n
RECURSIVE SeqsUpTo(_, _)
SeqsUpTo(S, n) ==
  IF n = 0 THEN {<<>>}
  ELSE SeqsUpTo(S, n - 1) \cup
       {Append(q, x) : q \in {r \in SeqsUpTo(S, n - 1) : Len(r) = n - 1}, x \in S}

SlipInputs == {Input("SLIP", 0, 0, b) : b \in SeqsUpTo(SlipBytes, MaxFrameLen)}

\* Bound: the length of the short host names
MaxHostLen == 2

\* the longest host name that leaves room for hash, JSON and terminator
FitHostLen == idBlockSize - SHA1Length - 1 - Len(IdJson(<<>>, <<>>, <<>>)) - 7 - 10

\* host names: short ones over 'a' and '.', and long ones of 'a' around
\* the length that fills the block
HostInputs ==
  { Input("generateIdBlock", 0, 0, h) : h \in SeqsUpTo({97, 46}, MaxHostLen) }
  \cup { Input("generateIdBlock", 0, 0, [i \in 1..n |-> 97]) :
           n \in {FitHostLen - 1, FitHostLen, FitHostLen + 1} }

\* base64url texts of the random bytes: id (7 characters), key (10)
RandomSamples ==
  { << <<65, 65, 65, 65, 65, 65, 65>>, <<65, 65, 65, 65, 65, 65, 65, 65, 65, 65>> >>,
    << <<45, 95, 122, 57, 48, 97, 81>>, <<95, 45, 51, 120, 81, 98, 55, 109, 48, 103>> >> }

\* texts for flashParamsFromString; a is the value expected of the text,
\* b tells what the text is: 3: mode,size,freq from the alphabets; 1: an
\* integer that fits int (a: its low 16 bits); 2: an integer that does not
\* fit int (a: its low 16 bits); 0: anything else
TripleInputs ==
  { Input("flashParamsFromString",
          flashMode[m] * 256 + flashSize[z] * 16 + flashFreq[f], 3,
          m \o <<44>> \o z \o <<44>> \o f) :
      m \in DOMAIN flashMode, z \in DOMAIN flashSize, f \in DOMAIN flashFreq }

NumberInputs ==
  {
    Input("flashParamsFromString", 0, 1, <<48>>),  \* "0"
    Input("flashParamsFromString", 576, 1, <<53, 55, 54>>),  \* "576"
    Input("flashParamsFromString", 576, 1, <<48, 120, 50, 52, 48>>),  \* "0x240"
    Input("flashParamsFromString", 576, 1, <<48, 88, 50, 52, 48>>),  \* "0X240"
    Input("flashParamsFromString", 160, 1, <<48, 50, 52, 48>>),  \* "0240"
    Input("flashParamsFromString", 65535, 1, <<54, 53, 53, 51, 53>>),  \* "65535"
    Input("flashParamsFromString", 0, 1, <<54, 53, 53, 51, 54>>),  \* "65536"
    Input("flashParamsFromString", 4464, 1, <<55, 48, 48, 48, 48>>),  \* "70000"
    Input("flashParamsFromString", 65535, 1, <<45, 49>>),  \* "-1"
    Input("flashParamsFromString", 65535, 1, <<45, 54, 53, 53, 51, 55>>),  \* "-65537"
    Input("flashParamsFromString", 5, 1, <<43, 53>>),  \* "+5"
    Input("flashParamsFromString", 65535, 1, <<50, 49, 52, 55, 52, 56, 51, 54, 52, 55>>),  \* "2147483647"
    Input("flashParamsFromString", 0, 1, <<45, 50, 49, 52, 55, 52, 56, 51, 54, 52, 56>>),  \* "-2147483648"
    Input("flashParamsFromString", 65535, 1, <<48, 120, 55, 102, 102, 102, 102, 102, 102, 102>>) }  \* "0x7fffffff"

BigNumberInputs ==
  {
    Input("flashParamsFromString", 0, 2, <<50, 49, 52, 55, 52, 56, 51, 54, 52, 56>>),  \* "2147483648"
    Input("flashParamsFromString", 0, 2, <<52, 50, 57, 52, 57, 54, 55, 50, 57, 54>>),  \* "4294967296"
    Input("flashParamsFromString", 0, 2, <<48, 120, 56, 48, 48, 48, 48, 48, 48, 48>>),  \* "0x80000000"
    Input("flashParamsFromString", 0, 2, <<48, 120, 49, 48, 48, 48, 48, 48, 48, 48, 48>>),  \* "0x100000000"
    Input("flashParamsFromString", 59391, 2, <<57, 57, 57, 57, 57, 57, 57, 57, 57, 57, 57>>),  \* "99999999999"
    Input("flashParamsFromString", 65535, 2, <<45, 50, 49, 52, 55, 52, 56, 51, 54, 52, 57>>) }  \* "-2147483649"

OtherInputs ==
  {
    Input("flashParamsFromString", 0, 0, <<>>),  \* ""
    Input("flashParamsFromString", 0, 0, <<97, 98, 99>>),  \* "abc"
    Input("flashParamsFromString", 0, 0, <<48, 120>>),  \* "0x"
    Input("flashParamsFromString", 0, 0, <<49, 50, 97>>),  \* "12a"
    Input("flashParamsFromString", 0, 0, <<48, 57>>),  \* "09"
    Input("flashParamsFromString", 0, 0, <<45>>),  \* "-"
    Input("flashParamsFromString", 0, 0, <<100, 105, 111>>),  \* "dio"
    Input("flashParamsFromString", 0, 0, <<100, 105, 111, 44, 51, 50, 109>>),  \* "dio,32m"
    Input("flashParamsFromString", 0, 0, <<100, 105, 111, 44, 51, 50, 109, 44, 52, 48, 109, 44>>),  \* "dio,32m,40m,"
    Input("flashParamsFromString", 0, 0, <<100, 105, 111, 44, 51, 50, 109, 44, 52, 48, 109, 44, 52, 48, 109>>),  \* "dio,32m,40m,40m"
    Input("flashParamsFromString", 0, 0, <<44>>),  \* ","
    Input("flashParamsFromString", 0, 0, <<44, 44>>),  \* ",,"
    Input("flashParamsFromString", 0, 0, <<68, 73, 79, 44, 51, 50, 109, 44, 52, 48, 109>>),  \* "DIO,32m,40m"
    Input("flashParamsFromString", 0, 0, <<100, 105, 111, 44, 54, 52, 109, 44, 52, 48, 109>>),  \* "dio,64m,40m"
    Input("flashParamsFromString", 0, 0, <<100, 105, 111, 44, 51, 50, 109, 44, 52, 48>>),  \* "dio,32m,40"
    Input("flashParamsFromString", 0, 0, <<100, 105, 111, 44, 44, 52, 48, 109>>),  \* "dio,,40m"
    Input("flashParamsFromString", 0, 0, <<32, 100, 105, 111, 44, 51, 50, 109, 44, 52, 48, 109>>),  \* " dio,32m,40m"
    Input("flashParamsFromString", 0, 0, <<100, 105, 111, 44, 51, 50, 109, 44, 52, 48, 109, 32>>),  \* "dio,32m,40m "
    Input("flashParamsFromString", 0, 0, <<50, 44, 52, 44, 48>>),  \* "2,4,0"
    Input("flashParamsFromString", 0, 0, <<53, 55, 54, 44>>) }  \* "576,"

\* Bound: the attempts given to trySync, and the sync() calls a stream
\* lets fail before one that may succeed
MaxAttempts == 4

\* j well-formed responses v, then a malformed one
FailingRun(j, v, bad) == [i \in 1..(j + 1) |-> IF i <= j THEN v ELSE bad]

RECURSIVE FailingRuns(_, _, _)
FailingRuns(js, v, bad) ==
  IF js = <<>> THEN <<>>
  ELSE FailingRun(Head(js), v, bad) \o FailingRuns(Tail(js), v, bad)

\* streams: some sync() calls that fail after 0, 3 or 7 well-formed
\* responses, then e well-formed ones (8, 7 or none) and silence.
\* b: the first sync() call that is answered by 8 well-formed responses
\* (0: none)
SyncStreams(fn, ns) ==
  { Input(fn, n, IF e = SyncResponses THEN Len(js) + 1 ELSE 0,
          FailingRuns(js, v, bad) \o [i \in 1..e |-> v]) :
      n \in ns, js \in SeqsUpTo({0, 3, 7}, MaxAttempts),
      v \in {1, 3}, bad \in {0, 2}, e \in {0, SyncResponses - 1, SyncResponses} }

SyncCallInputs ==
  SyncStreams("sync", {1}) \cup SyncStreams("trySync", 0..MaxAttempts)
  \cup SyncStreams("rebootIntoBootloader", {RebootSyncAttempts})

\* readFlashLocked(a, b) with the device's part as numbers: the codes of
\* its four responses (see RawOf), the length of the SLIP frame it sends,
\* and for each sync() of the final trySync how many responses parse
ReadCallInputs ==
  { Input("readFlashLocked", ol[1], ol[2], rs \o <<ol[2] + d>> \o vs) :
      ol \in {<<0, 4>>, <<idBlockOffset, idBlockSize>>},
      rs \in [1..4 -> {0, 1, 3}], d \in {-1, 0, 1},
      vs \in SyncInputs(ReadSyncAttempts) }

\* the device of a readFlashLocked call, from its numbers
DevOf(s) ==
  [raws |-> [i \in 1..4 |-> RawOf(s[i])],
   frame |-> Frame(s[5], <<>>, -1, FALSE),
   vs |-> SubSeq(s, 6, Len(s))]

ParamInputs == TripleInputs \cup NumberInputs \cup BigNumberInputs \cup OtherInputs

PureInputs == EraseInputs \cup BeginInputs \cup SlipInputs \cup HostInputs
              \cup ParamInputs \cup SyncCallInputs \cup ReadCallInputs

PureInit ==
  /\ Constructed
  /\ preserve_flash_params_ /\ generate_id_if_none_found_
  /\ override_flash_params_ = -1
  /\ input \in PureInputs
  /\ result = NoResult

CallFixupEraseLength ==
  /\ input.fn = "fixupEraseLength" /\ result.fn = "none"
  /\ result' = [fn |-> "fixupEraseLength",
                v |-> fixupEraseLength(input.a, input.b)]
  /\ UNCHANGED <<engine, input>>

\* the total_erase_size writeFlashStartLocked(addr, blocks) puts first in
\* the payload of flash_begin
CallEraseLength ==
  /\ input.fn = "eraseLength" /\ result.fn = "none"
  /\ result' = [fn |-> "eraseLength", v |-> eraseLength(input.a, input.b)]
  /\ UNCHANGED <<engine, input>>

\* SLIP_write(port, bytes), then SLIP_read(port) of what was written
CallSlip ==
  /\ input.fn = "SLIP" /\ result.fn = "none"
  /\ result' = [fn |-> "SLIP", wire |-> SLIP_write(input.s),
                back |-> SLIP_read(SLIP_write(input.s))]
  /\ UNCHANGED <<engine, input>>

\* generateIdBlock(host), and the check of findIdLocked on the block
CallGenerateIdBlock ==
  /\ input.fn = "generateIdBlock" /\ result.fn = "none"
  /\ \E rnd \in RandomSamples :
       LET r == generateIdBlockBytes(input.s, rnd[1], rnd[2]) IN
         result' = [fn |-> "generateIdBlock", block |-> r,
                    found |-> IdPresent(FrameOf(r))]
  /\ UNCHANGED <<engine, input>>

CallFlashParamsFromString ==
  /\ input.fn = "flashParamsFromString" /\ result.fn = "none"
  /\ result' = flashParamsFromString(input.s)
  /\ UNCHANGED <<engine, input>>

CallSync ==
  /\ input.fn = "sync" /\ result.fn = "none"
  /\ result' = [fn |-> "sync", ok |-> syncCall(input.s).ok,
                cmds |-> syncCall(input.s).cmds,
                reads |-> Len(input.s) - Len(syncCall(input.s).rest), pulses |-> 0]
  /\ UNCHANGED <<engine, input>>

CallTrySync ==
  /\ input.fn = "trySync" /\ result.fn = "none"
  /\ LET r == trySyncCall(input.s, input.a, <<>>)
     IN result' = [fn |-> "trySync", ok |-> r.ok, cmds |-> r.cmds,
                   reads |-> Len(input.s) - Len(r.rest), pulses |-> 0]
  /\ UNCHANGED <<engine, input>>

CallRebootIntoBootloader ==
  /\ input.fn = "rebootIntoBootloader" /\ result.fn = "none"
  /\ LET r == rebootIntoBootloaderCall(input.s)
     IN result' = [fn |-> "rebootIntoBootloader", ok |-> r.ok, cmds |-> r.cmds,
                   reads |-> Len(input.s) - Len(r.rest), pulses |-> r.pulses]
  /\ UNCHANGED <<engine, input>>

CallReadFlashLocked ==
  /\ input.fn = "readFlashLocked" /\ result.fn = "none"
  /\ LET r == readFlashLocked(input.a, input.b, DevOf(input.s))
     IN result' = [fn |-> "readFlashLocked", ok |-> r.ok, code |-> r.code,
                   msg |-> r.msg, cmds |-> r.cmds, len |-> r.r.len]
  /\ UNCHANGED <<engine, input>>

PureNext ==
  \/ CallFixupEraseLength
  \/ CallEraseLength
  \/ CallSlip
  \/ CallGenerateIdBlock
  \/ CallFlashParamsFromString
  \/ CallSync
  \/ CallTrySync
  \/ CallRebootIntoBootloader
  \/ CallReadFlashLocked

PureSpec == PureInit /\ [][PureNext]_vars

\* ----------------------------------------------------------------------
\* Properties
\* ----------------------------------------------------------------------
\* run() is past the boot-image step and in (or just before) the write loop
AfterPatch == pc \in {"findid", "begin", "block", "failed", "finish"}

\* the done event of a run() that has returned
DoneEvent == out[Len(out)]

Returned == pc = "done" /\ out # <<>> /\ DoneEvent.op = "done"

\* run() got through the loop over the images: every image was written
WroteAll ==
  Returned /\ DoneEvent.s \in {"All done!", "failed to leave flashing mode"}

\* the flash mode written: byte 2 of the written boot image, else the high
\* byte of the override or of the preserved value, as unsigned bytes
WrittenMode ==
  IF IsBootImage(images_) THEN images_[0].hdr[3]
  ELSE IF override_flash_params_ >= 0 THEN (override_flash_params_ \div 256) % 256
  ELSE IF preserve_flash_params_ /\ Len(params) = 2 THEN params[1]
  ELSE -1

\* C1: with preserve_flash_params set and no override, bytes [2..4) of the
\* boot image handed to the write loop are the two bytes read from the
\* device's flash header, whatever their values; with an override they are
\* the high and the low byte of the override.
C1_BootImageCarriesParams ==
  (AfterPatch /\ IsBootImage(images_)) =>
     IF override_flash_params_ >= 0
     THEN /\ images_[0].hdr[3] = (override_flash_params_ \div 256) % 256
          /\ images_[0].hdr[4] = override_flash_params_ % 256
     ELSE preserve_flash_params_ => SubSeq(images_[0].hdr, 3, 4) = params

\* C2: after the boot-image step flashParams is byte 2 * 256 + byte 3 of
\* the boot image, the bytes taken as unsigned, hence within 0..0xFFFF.
C2_ParamsFromBootImage ==
  (AfterPatch /\ IsBootImage(images_)) =>
     /\ flashParams = images_[0].hdr[3] * 256 + images_[0].hdr[4]
     /\ 0 <= flashParams /\ flashParams <= 65535

\* C3: a run() that wrote every image and whose written flash mode is 2
\* (DIO) ends with the reboot-into-firmware pulse and sends no flash_end,
\* for every value of the low byte.
C3_DioEndsWithReboot ==
  (WroteAll /\ WrittenMode = 2) =>
     /\ lastDev.op = "reboot_fw"
     /\ "flash_end" \notin sent

\* C4: when the written flash mode is not DIO, run() sends
\* flash_end(stay_in_loader = 1) after the last image; a response that is
\* not ok ends run() with done(false) if erase_bug_workaround is off and
\* with done("All done!", true) if it is on.
C4_FlashEndUnlessDio ==
  (WroteAll /\ WrittenMode # 2) =>
     /\ lastDev.op = "flash_end" /\ lastDev.a = 1
     /\ DoneEvent.ok = (lastDev.ok \/ erase_bug_workaround_)
     /\ DoneEvent.ok => DoneEvent.s = "All done!"
     /\ ~DoneEvent.ok => DoneEvent.s = "failed to leave flashing mode"

\* C4 witness: flash_end was answered with an error, the workaround is on,
\* and run() reported success
C4_Witness ==
  /\ WroteAll /\ WrittenMode # 2
  /\ lastDev.op = "flash_end" /\ ~lastDev.ok
  /\ erase_bug_workaround_ /\ DoneEvent.ok
  /\ DOMAIN images_ # {}

FailedImage == Returned /\ DoneEvent.s = "failed to flash image at"

\* C5: every write attempt is preceded by a bootloader reboot issued for
\* it (the last thing done to the device before its flash_begin), and an
\* image is reported as failed only after three attempts.
C5_RebootBeforeEveryAttempt ==
  /\ pc = "begin" => (lastDev.op = "reboot_bl" /\ lastDev.ok)
  /\ FailedImage => tries = 3

\* C5 as amended: an image is attempted at most three times; every attempt
\* but the first of an image directly follows a successful bootloader
\* reboot; an image is reported as failed after a failed attempt and the
\* reboot that follows it, when that was the third attempt or the reboot
\* failed.
C5_RebootBeforeEveryRetry ==
  /\ tries <= 3
  /\ (pc = "begin" /\ tries >= 1) => (lastDev.op = "reboot_bl" /\ lastDev.ok)
  /\ pc \in {"block", "failed"} => tries >= 1
  /\ FailedImage =>
       /\ tries >= 1
       /\ lastDev.op = "reboot_bl"
       /\ tries = 3 \/ ~lastDev.ok
       /\ DoneEvent.a = addr

\* C5 witness: the third attempt failed and the image is given up
C5_Witness == FailedImage /\ tries = 3 /\ lastDev.ok

\* blocks of the images written before the image at a
BlocksBefore(a) ==
  totalBlocksOf([k \in {x \in DOMAIN images_ : x < a} |-> images_[k]])

\* C6: after a failed attempt the counter, and the progress value emitted
\* next, are what the counter was before the first attempt of the image
\* (the blocks of the images before it), however many blocks the failed
\* attempt had written.
C6_ProgressRewound ==
  [][pc = "failed" =>
       /\ written_count_' = written
       /\ written_count_' = BlocksBefore(addr)
       /\ out'[1].op = "progress"
       /\ out'[1].a = BlocksBefore(addr)]_vars

\* C6 witness: a second image failed after one of its blocks was written,
\* and the counter is back at the blocks of the first image
C6_Witness ==
  /\ pc = "begin" /\ tries >= 1 /\ start >= writeBlockSize
  /\ addr > 0 /\ written_count_ = BlocksBefore(addr) /\ written_count_ > 0
  /\ out[1].op = "progress" /\ out[1].a = written_count_

FlashData(es) == SelectSeq(es, LAMBDA e : e.op = "flash_data")

MaxOf(S) == CHOOSE x \in S : \A y \in S : x >= y

\* C7: no flash_begin is sent while an earlier flash_begin is still not
\* matched by a flash_end: every write transaction is bracketed by one
\* flash_begin and one flash_end.
C7_BeginEndBracketed ==
  [][("flash_begin" \in Ops(out')) => ~beginOpen]_vars

\* C7 as amended: every write attempt starts with exactly one flash_begin
\* and the blocks of the attempt follow without a further one; flash_end
\* is sent at most once in a run(), as the last command, after the last
\* image was written and only if the mode run() computed is not DIO; it
\* closes all the flash_begin sent before, which stay unmatched until then.
C7_OneBeginPerAttemptOneEnd ==
  [][/\ pc = "begin" => (Len(WriteBegins(out')) = 1 /\ "flash_end" \notin Ops(out'))
     /\ pc \in {"block", "failed"} => Ops(out') \cap {"flash_begin", "flash_end"} = {}
     /\ ("flash_end" \in Ops(out')) =>
          /\ pc = "finish" /\ pc' = "done"
          /\ "flash_end" \notin sent
          /\ begun = DOMAIN images_
          /\ (flashParams \div 256) % 256 # 2
          /\ lastDev'.op = "flash_end"
          /\ Len(SelectSeq(out', LAMBDA e : e.op = "flash_end")) = 1
     /\ (pc' \in {"block", "failed", "finish"} /\ begun' # {}) => beginOpen']_vars

\* C7 witness: two images were written, each after its own flash_begin,
\* and one flash_end ended the run
C7_Witness ==
  /\ WroteAll /\ lastDev.op = "flash_end"
  /\ Cardinality(begun) >= 2 /\ ~beginOpen

\* the flash addresses [lo, hi) a flash_data command programs
Lo(e) == e.a + e.b * writeBlockSize

Hi(e) == Lo(e) + e.c

\* C8: every byte sent in a flash_data command is programmed at an address
\* inside [addr, addr + len) of one of the images (the generated IdBlock
\* is one of them), also when len is no multiple of 1024.
C8_ProgrammedInsideImages ==
  \A i \in DOMAIN FlashData(out) :
    LET e == FlashData(out)[i] IN
      \E k \in DOMAIN images_ : k <= Lo(e) /\ Hi(e) <= k + images_[k].len

\* C8 as amended: every flash_data command programs 1024-byte block b of
\* the image at addr: its bytes lie inside [addr, addr + 1024 * ceil(len /
\* 1024)), the bytes of it below addr + len are the image's, and only the
\* last block of an image carries bytes beyond addr + len, fewer than 1024
\* bytes of 0xFF padding.
C8_ProgrammedInsidePaddedImages ==
  \A i \in DOMAIN FlashData(out) :
    LET e == FlashData(out)[i]
        len == images_[e.a].len
    IN /\ e.a \in DOMAIN images_
       /\ e.a <= Lo(e)
       /\ Lo(e) < e.a + len
       /\ Hi(e) <= e.a + writeBlockSize * blocksOf(len)
       /\ Hi(e) - e.d = (IF Hi(e) <= e.a + len THEN Hi(e) ELSE e.a + len)
       /\ e.d < writeBlockSize

\* C8 witness: the last block of an image that ends inside it goes out
\* padded
C8_Witness ==
  \E i \in DOMAIN FlashData(out) :
    FlashData(out)[i].d > 0 /\ FlashData(out)[i].b >= 1 /\ FlashData(out)[i].ok

\* C9: whenever run() writes an image at address 0, its first byte is 0xE9.
C9_BootImageHasMagic ==
  (0 \in begun) => (images_[0].len >= 1 /\ images_[0].hdr[1] = BootMagic)

\* C9 as amended: the boot-image step changes the image at address 0 only
\* if it is at least 4 bytes long and starts with 0xE9, and then changes
\* nothing but its bytes 2 and 3; every other image, and an image at
\* address 0 that does not start with 0xE9, is written as loaded; the
\* write loop changes no image.
C9_PatchKeepsMagic ==
  [][/\ pc = "patch" =>
          IF 0 \in DOMAIN images_ /\ images_[0].len >= 4
             /\ images_[0].hdr[1] = BootMagic
          THEN /\ DOMAIN images_' = DOMAIN images_
               /\ \A k \in DOMAIN images_ : k # 0 => images_'[k] = images_[k]
               /\ images_'[0].len = images_[0].len
               /\ images_'[0].hdr[1] = BootMagic
               /\ images_'[0].hdr[2] = images_[0].hdr[2]
          ELSE images_' = images_
     /\ pc \in {"begin", "block", "failed", "finish"} => images_' = images_]_vars

\* C9 witness: a patched boot image is being written
C9_Witness ==
  /\ 0 \in begun /\ IsBootImage(images_)
  /\ override_flash_params_ >= 0
  /\ images_[0].hdr[3] = (override_flash_params_ \div 256) % 256

\* C10: the images are programmed in strictly ascending address order; once
\* an image has finally failed, done("failed to flash image at 0x<addr>",
\* false) names it and nothing is sent for an image at a higher address.
C10_AscendingUntilFailure ==
  [][/\ \A i \in DOMAIN WriteBegins(out') :
          /\ \A b \in begun : b <= WriteBegins(out')[i].a
          /\ WriteBegins(out')[i].a \in DOMAIN images_
          /\ \A k \in DOMAIN images_ : k < WriteBegins(out')[i].a => k \in begun
     /\ \A i \in DOMAIN FlashData(out') :
          /\ FlashData(out')[i].a \in begun
          /\ FlashData(out')[i].a = MaxOf(begun)
     /\ pc # "done"
     /\ (pc' = "done" /\ out'[Len(out')].s = "failed to flash image at") =>
          /\ ~out'[Len(out')].ok
          /\ out'[Len(out')].a = MaxOf(begun')
          /\ Ops(out') \cap {"flash_begin", "flash_data"} = {}]_vars

\* C10 witness: the first of two images failed for good and the second
\* was never begun
C10_Witness ==
  /\ FailedImage /\ DoneEvent.a = 0 /\ begun = {0}
  /\ \E k \in DOMAIN images_ : k > 0

\* C11: run() ends with exactly one done event; it is done("All done!",
\* true) only when the bootloader was entered at the start, flash_begin
\* was sent for every image of the map, all the blocks of every image were
\* acknowledged within one attempt (the counter is the blocks of the
\* images before plus the blocks of the running attempt, and ends as the
\* blocks of all images) and the final step (reboot into firmware, or a
\* flash_end that leaveFlashingModeLocked accepts) was done; every other
\* done event carries success = false.
C11_SuccessOnlyAfterAllWritten ==
  [][/\ (pc = "idle" /\ pc' \notin {"idle", "done"}) =>
          (out'[1].op = "reboot_bl" /\ out'[1].ok)
     /\ pc' = "block" => written_count_' = BlocksBefore(addr') + SeqOf(start')
     /\ (pc # "done" /\ pc' = "done") =>
          LET d == out'[Len(out')] IN
            /\ d.op = "done"
            /\ Len(SelectSeq(out', LAMBDA e : e.op = "done")) = 1
            /\ d.ok <=> d.s = "All done!"
            /\ d.ok =>
                 /\ pc = "finish"
                 /\ "reboot_bl" \in sent
                 /\ begun = DOMAIN images_
                 /\ written_count_ = totalBlocksOf(images_)
                 /\ lastDev'.op \in {"reboot_fw", "flash_end"}
                 /\ lastDev'.op = "flash_end" =>
                      (lastDev'.ok \/ erase_bug_workaround_)]_vars

\* C11 witness: two images were written, the second after a retry, and
\* run() reported success
C11_Witness ==
  /\ Returned /\ DoneEvent.ok
  /\ Cardinality(DOMAIN images_) >= 2
  /\ tries >= 2
  /\ written_count_ = totalBlocksOf(images_) /\ written_count_ >= 3

\* the command code writeCommand() sends for a command of a write attempt
CommandOf(op) == IF op = "flash_begin" THEN 2 ELSE 3

\* the flash_begin and flash_data commands of a write attempt among es
WriteCmds(es) ==
  SelectSeq(es, LAMBDA e : (e.op = "flash_begin" /\ e.s = "write")
                           \/ e.op = "flash_data")

\* C12: within a write attempt a response to flash_begin or flash_data
\* that is malformed, has a wrong direction byte, echoes another command
\* code than the one sent, or carries a non-zero status or last_error
\* makes the attempt fail (a reboot and the retry follow) and is not
\* counted as an acknowledgement: no progress is emitted for it.
C12_BadResponseFailsAttempt ==
  [][\A i \in DOMAIN WriteCmds(out') :
       LET e == WriteCmds(out')[i] IN
         (~e.ok \/ e.echo # CommandOf(e.op)) =>
            /\ pc' = "failed"
            /\ written_count_' = written_count_
            /\ "progress" \notin Ops(out')]_vars

\* C13: for a sector-aligned start and len > 0, with x the sectors len
\* covers and t the sectors to the end of the start's 64KB block, the ROM
\* asked for the sectors of fixupEraseLength(start, len) erases x sectors
\* or, x being odd and at most 2t, x + 1: never fewer than x, at most one
\* more.
C13_ErasesAllAtMostOneMore ==
  (result.fn = "fixupEraseLength" /\ input.a % sectorSize = 0 /\ input.b > 0) =>
     LET x == SectorsOf(input.b)
         t == TailOf(input.a)
         erased == RomErased(SectorsOf(result.v), t)
     IN /\ erased \in {x, x + (x % 2)}
        /\ erased >= x /\ erased <= x + 1
        /\ erased = x + 1 => x <= 2 * t

\* C13 witness: an odd number of sectors, not more than 2t, and one
\* sector more is erased
C13_Witness ==
  /\ result.fn = "fixupEraseLength" /\ input.a % sectorSize = 0
  /\ SectorsOf(input.b) % 2 = 1 /\ SectorsOf(input.b) > 1
  /\ TailOf(input.a) < sectorsPerBlock
  /\ RomErased(SectorsOf(result.v), TailOf(input.a)) = SectorsOf(input.b) + 1

\* g(x,t) of the specification: the corrected number of sectors
G(x, t) == IF x <= 2 * t THEN (x + 1) \div 2 ELSE x - t

\* C14: with the workaround active the total_erase_size of flash_begin
\* for num_blocks blocks at addr is g(x,t) * 4096, x the sectors that
\* num_blocks * 1024 bytes cover, hence a multiple of 4096;
\* fixupEraseLength(0x10000, 0x4000) = 0x2000 and fixupEraseLength(0x10000,
\* 0x100000) = 0xF0000; with the workaround inactive it is num_blocks * 1024.
C14_EraseSizeIsCorrectedSectors ==
  /\ result.fn = "eraseLength" =>
       IF erase_bug_workaround_
       THEN /\ result.v = G(SectorsOf(input.b * writeBlockSize), TailOf(input.a))
                           * sectorSize
            /\ result.v % sectorSize = 0
       ELSE result.v = input.b * writeBlockSize
  /\ (result.fn = "fixupEraseLength" /\ input.a = 65536 /\ input.b = 16384) =>
       result.v = 8192
  /\ (result.fn = "fixupEraseLength" /\ input.a = 65536 /\ input.b = 1048576) =>
       result.v = 983040

\* C15: for every byte sequence b, SLIP_read of the stream SLIP_write(b)
\* produces is b; the stream holds 0xC0 as its first and its last byte and
\* nowhere else; C0 DB 01 is written as C0 DB DC DB DD 01 C0.
C15_SlipRoundTrip ==
  result.fn = "SLIP" =>
    /\ result.back = input.s
    /\ Len(result.wire) >= 2
    /\ \A i \in DOMAIN result.wire :
         (result.wire[i] = 192) <=> (i = 1 \/ i = Len(result.wire))
    /\ input.s = <<192, 219, 1>> =>
         result.wire = <<192, 219, 220, 219, 221, 1, 192>>

\* C15 witness: a sequence holding both special bytes, and an escape code
\* as data, came back
C15_Witness ==
  /\ result.fn = "SLIP"
  /\ {192, 219} \subseteq {input.s[i] : i \in DOMAIN input.s}
  /\ Len(result.wire) > Len(input.s) + 3
  /\ result.back = input.s

\* the entries of op among es
OfOp(es, op) == SelectSeq(es, LAMBDA e : e.op = op)

\* C16: readFlashLocked(offset, len) asks the stub for one block of len
\* bytes (block_len = len, block_count = 1) and accepts the SLIP frame
\* read after it only if the frame is exactly len bytes long: a frame of
\* any other length makes the read fail.
C16_FrameOfExactlyLen ==
  \A i \in DOMAIN OfOp(out, "slip_read") :
    LET frame == OfOp(out, "slip_read")[i]
        asked == OfOp(out, "mem_begin")[1]
    IN /\ asked.c = 1
       /\ frame.ok <=> frame.a = asked.b

\* C17: with generate_id_if_none_found set, run() reads 4096 bytes at
\* 0x10000 before it writes any image; the image at 0x10000 is replaced by
\* a newly generated IdBlock if and only if the block read is not a
\* present IdBlock (it has no 0x00 from byte 20 on, or its first 20 bytes
\* are not the hash of the bytes between); the other images stay; if the
\* read fails run() ends with done(success = false) and no flash_data was
\* or will be sent. Without the option nothing is read and no image added.
C17_IdBlockIffAbsent ==
  [][pc = "findid" =>
       /\ begun = {} /\ "flash_data" \notin sent
       /\ IF ~generate_id_if_none_found_
          THEN images_' = images_ /\ out' = <<>>
          ELSE /\ out'[1].op = "flash_begin" /\ out'[1].s = "read"
               /\ \A i \in DOMAIN OfOp(out', "mem_begin") :
                    /\ OfOp(out', "mem_begin")[i].a = idBlockOffset
                    /\ OfOp(out', "mem_begin")[i].b = idBlockSize
               /\ "flash_data" \notin sent'
               /\ IF pc' = "done"
                  THEN /\ ~out'[Len(out')].ok
                       /\ out'[Len(out')].s = "failed to check for ID presence"
                       /\ \E i \in DOMAIN out' : out'[i].op # "done" /\ ~out'[i].ok
                       /\ images_' = images_
                  ELSE LET r == OfOp(out', "slip_read")[1]
                           present == r.b >= 0 /\ r.c = 1
                       IN /\ \A i \in DOMAIN out' : out'[i].ok
                          /\ r.a >= idBlockSize
                          /\ present => images_' = images_
                          /\ ~present =>
                               /\ DOMAIN images_' = DOMAIN images_ \cup {idBlockOffset}
                               /\ images_'[idBlockOffset].len = idBlockSize
                               /\ images_'[idBlockOffset].hdr = IdHashSample
                               /\ \A k \in DOMAIN images_ :
                                    k # idBlockOffset => images_'[k] = images_[k]]_vars

\* C17 witness: no IdBlock was found on the device, and the generated one
\* installed at 0x10000 is being written after the image at 0
C17_Witness ==
  /\ generate_id_if_none_found_
  /\ pc = "block" /\ addr = idBlockOffset
  /\ 0 \in begun
  /\ images_[idBlockOffset].hdr = IdHashSample

\* run() is between its start and its end
Running == pc \notin {"idle", "done"}

\* C18: load(), setPort() and run() exclude one another: from the start
\* to the end of a run() no load() is in progress, the port handle does
\* not change and the image map changes only by run()'s own steps (the
\* boot image patch, the IdBlock); no run() starts and no port is set
\* while a load() is in progress; and totalBlocks() reads the image map
\* only when neither load() nor run() holds the mutex, returning the
\* blocks of the map as load() or run() left it.
C18_MutuallyExclusive ==
  [][/\ Running =>
          /\ lock_ /\ ~loading /\ ~loading'
          /\ port_' = port_
          /\ images_' # images_ => pc \in {"patch", "findid"}
     /\ loading =>
          /\ lock_ /\ pc' = pc /\ port_' = port_
     /\ (pc = "idle" /\ pc' # "idle") => ~loading
     /\ ("totalBlocks" \in Ops(out')) =>
          /\ ~lock_ /\ ~loading /\ ~Running
          /\ images_' = images_
          /\ out'[1].a = totalBlocksOf(images_)]_vars

\* C18 witness: run() holds the mutex and has patched the boot image of
\* the map a load() had filled, no load() being in progress
C18_Witness ==
  /\ Running /\ lock_ /\ ~loading
  /\ pc = "findid" /\ loadResult = ""
  /\ IsBootImage(images_) /\ override_flash_params_ >= 0
  /\ images_[0].hdr[4] = override_flash_params_ % 256

\* C19: for any host name h the block generateIdBlock(h) returns is found
\* present by the check of findIdLocked, is exactly 4096 bytes long, and
\* holds only 0xFF after its 0x00 terminator.
C19_GeneratedIdBlockIsFound ==
  result.fn = "generateIdBlock" =>
    /\ result.found
    /\ Len(result.block) = 4096
    /\ \A i \in (IndexOf(result.block, 0, SHA1Length) + 2)..Len(result.block) :
         result.block[i] = 255

C21_SyncTrySyncReboot ==
  LET n == IF result.fn = "trySync" THEN input.a
           ELSE IF result.fn = "sync" THEN 1 ELSE RebootSyncAttempts
      good == input.b # 0 /\ input.b <= n
  IN result.fn \in {"sync", "trySync", "rebootIntoBootloader"} =>
       /\ result.ok <=> good
       /\ \A i \in DOMAIN result.cmds : result.cmds[i] = 8
       /\ Len(result.cmds) = (IF good THEN input.b ELSE n)
       /\ result.fn = "sync" =>
            (result.ok <=> /\ Len(input.s) >= SyncResponses
                           /\ \A i \in 1..SyncResponses : input.s[i] \in {1, 3})
       /\ result.ok => result.reads >= SyncResponses
       /\ result.pulses = (IF result.fn = "rebootIntoBootloader" THEN 1 ELSE 0)

\* C21 witness: trySync(3) succeeded at its third sync(), the first two
\* having read 7 well-formed responses and a malformed one each
C21_Witness ==
  /\ result.fn = "trySync" /\ input.a = 3 /\ input.b = 3
  /\ result.ok /\ result.cmds = <<8, 8, 8>>
  /\ result.reads = 3 * SyncResponses

\* C22: within one write attempt of an image of length L exactly one
\* flash_begin (erase length, ceil(L/1024) blocks, address) is sent, first;
\* the flash_data commands then carry the sequence numbers 0, 1, 2, ...
\* in order, each with 1024 data bytes (only the last padded with 0xFF up
\* to 1024), block k+1 only after block k got an ok response, and nothing
\* more of the attempt after a response that is not ok.
C22_WriteAttempt ==
  [][ LET begins == WriteBegins(out')
          datas == OfOp(out', "flash_data")
      IN /\ Len(begins) + Len(datas) <= 1
         /\ begins # <<>> =>
              LET e == begins[1]
                  L == images_[e.a].len
              IN /\ e.a \in DOMAIN images_
                 /\ e.b = (L + 1023) \div 1024
                 /\ e.c = (IF erase_bug_workaround_
                           THEN fixupEraseLength(e.a, e.b * 1024)
                           ELSE e.b * 1024)
                 /\ ~(lastDev.op \in {"flash_begin", "flash_data"}
                      /\ lastDev.ok /\ lastDev.a = e.a /\ lastDev.s # "read")
         /\ datas # <<>> =>
              LET e == datas[1]
                  L == images_[e.a].len
                  n == (L + 1023) \div 1024
              IN /\ lastDev.ok /\ lastDev.a = e.a
                 /\ \/ lastDev.op = "flash_begin" /\ lastDev.s = "write" /\ e.b = 0
                    \/ lastDev.op = "flash_data" /\ e.b = lastDev.b + 1
                 /\ e.b < n
                 /\ e.c = 1024
                 /\ e.d = (IF e.b = n - 1 THEN n * 1024 - L ELSE 0)
    ]_vars

\* C22 witness: in the second attempt at an image the second, last block
\* went out with its padding and was acknowledged
C22_Witness ==
  /\ lastDev.op = "flash_data" /\ lastDev.b = 1 /\ lastDev.d > 0 /\ lastDev.ok
  /\ tries = 2

ReadSteps == <<"flash_begin", "mem_begin", "mem_data", "mem_end", "slip_read", "sync">>

\* whether step i of a read fails on the device described by s
StepFails(s, len, i) ==
  IF i <= 4 THEN s[i] # 1
  ELSE IF i = 5 THEN s[5] < len
  ELSE \A j \in 6..Len(s) : s[j] < SyncResponses

\* C23: readFlashLocked issues flash_begin(0,0), mem_begin, mem_data,
\* mem_end, the read of one SLIP frame and trySync(5) in this order; when a
\* step fails it returns ABORTED and no later step is issued; it reports
\* success only after the trySync(5) succeeded.
C23_ReadStepsInOrder ==
  result.fn = "readFlashLocked" =>
    LET failing == {i \in 1..6 : StepFails(input.s, input.b, i)}
        last == IF failing = {} THEN 6 ELSE MinOf(failing)
    IN /\ Len(result.cmds) = last
       /\ \A i \in 1..last : result.cmds[i].op = ReadSteps[i]
       /\ result.cmds[1].a = 0 /\ result.cmds[1].b = 0
       /\ result.ok <=> failing = {}
       /\ ~result.ok => result.code = "ABORTED"
       /\ result.ok => (result.cmds[6].op = "sync" /\ result.cmds[6].ok
                        /\ result.cmds[6].a = ReadSyncAttempts)

\* C23 witness: a read stopped at mem_data and returned ABORTED, on a
\* device that would have sent the frame and answered the sync
C23_Witness ==
  /\ result.fn = "readFlashLocked" /\ ~result.ok /\ result.code = "ABORTED"
  /\ Len(result.cmds) = 3 /\ result.cmds[3].op = "mem_data"
  /\ input.s[4] = 1 /\ input.s[5] >= input.b /\ input.s[6] = 8

\* C24: every run() terminates, whatever the device answers and whichever
\* reads time out, and emits exactly one done event, the last event it
\* emits.
C24_TerminatesWithOneDone ==
  /\ (pc \notin {"idle", "done"}) ~> (pc = "done")
  /\ [][ LET dones == OfOp(out', "done")
         IN /\ Len(dones) <= 1
            /\ dones # <<>> => /\ out'[Len(out')].op = "done"
                               /\ pc # "done" /\ pc' = "done"
            /\ (pc # "done" /\ pc' = "done") => dones # <<>>
            /\ pc = "done" => (pc' = "done" /\ out' = <<>>)
     ]_vars

\* C24 witness: run() ended after three attempts at an image, the reboot
\* after the third having failed too
C24_Witness ==
  /\ Returned /\ ~DoneEvent.ok /\ tries = 3
  /\ lastDev.op = "reboot_bl" /\ ~lastDev.ok

\* the blocks acknowledged in the running attempt at the image at addr, by
\* the last command sent
Acknowledged ==
  IF lastDev.op = "flash_data" /\ lastDev.a = addr
  THEN lastDev.b + (IF lastDev.ok THEN 1 ELSE 0)
  ELSE 0

\* C25: all through the write phase of run() the progress counter is the
\* blocks of the images completed plus the blocks acknowledged in the
\* running attempt, so it is never above totalBlocks() of the map being
\* written; when run() succeeds the last progress value emitted (there is
\* one when the map has any block) is that totalBlocks(), whatever
\* attempts failed.
C25_CounterIsCompletedPlusAcknowledged ==
  /\ pc \in {"begin", "block", "failed"} =>
       /\ written_count_ = BlocksBefore(addr) + Acknowledged
       /\ written_count_ <= totalBlocksOf(images_)
       /\ lastProgress \in {-1, written_count_}
  /\ pc = "finish" => written_count_ = totalBlocksOf(images_)
  /\ (Returned /\ DoneEvent.ok) =>
       /\ lastProgress \in {-1, totalBlocksOf(images_)}
       /\ totalBlocksOf(images_) > 0 => lastProgress = totalBlocksOf(images_)

\* C25 witness: run() succeeded on two images after failed attempts at the
\* second, and the last progress value is the blocks of both
C25_Witness ==
  /\ Returned /\ DoneEvent.ok /\ tries = 3
  /\ Cardinality(DOMAIN images_) = 2
  /\ lastProgress = totalBlocksOf(images_) /\ lastProgress >= 3

\* C26: run() sends a flash_begin for an image only when the most recent
\* bootloader synchronisation (rebootIntoBootloader, or the trySync(5)
\* ending a flash read) succeeded; when the bootloader cannot be entered
\* at the start of run(), or a reboot between attempts fails, no
\* flash_begin or flash_data is sent any more and run() ends with
\* done(success = false).
C26_BeginOnlyWhenSynced ==
  [][ /\ WriteBegins(out') # <<>> =>
           (lastSync.op \in {"reboot_bl", "sync"} /\ lastSync.ok)
      /\ \A i \in DOMAIN out' :
           (out'[i].op = "reboot_bl" /\ ~out'[i].ok) =>
             /\ pc' = "done"
             /\ out'[Len(out')].op = "done" /\ ~out'[Len(out')].ok
             /\ \A j \in (i + 1)..Len(out') :
                  out'[j].op \notin {"flash_begin", "flash_data"}
      /\ (lastSync.op = "reboot_bl" /\ ~lastSync.ok) =>
           (pc = "done" /\ DevEntries(out') = <<>>)
    ]_vars

\* C26 witness: an image was begun again after a reboot between attempts,
\* in a run() that had read the flash before
C26_Witness ==
  /\ pc = "block" /\ tries = 2 /\ "slip_read" \in sent
  /\ lastSync.op = "reboot_bl" /\ lastSync.ok
  /\ lastDev.op = "flash_begin" /\ lastDev.ok

\* C27: whenever load() returns a message that is not empty (missing
\* directory, no files, invalid address in a file name, unreadable file,
\* size mismatch) the image map is empty afterwards, so that a run() that
\* follows writes no image of a partly loaded directory.
C27_FailedLoadLeavesNoImages ==
  [][ /\ (loading /\ ~loading' /\ loadResult' # "") => images_' = EmptyImages
      /\ (loadResult # "" /\ WriteBegins(out') # <<>>) =>
           WriteBegins(out')[1].a = idBlockOffset
    ]_vars

=============================================================================
